---- MODULE Spec2Model ----
(***************************************************************************)
(* Internal procurement system (project.py): the JSON-backed vendor and    *)
(* purchase stores and the vendor comparison / scoring of compare_vendors. *)
(*                                                                         *)
(* Numbers that the program holds as Python floats are modelled as exact   *)
(* rationals [n |-> numerator, d |-> denominator] in lowest terms; every   *)
(* arithmetic step of the source is one rational operation here.  On the   *)
(* input grids below no score lies halfway between two tenths, and the     *)
(* rounded scores and the order of the selection keys are those the float  *)
(* arithmetic gives.  A vendor's uuid is modelled by its creation index;   *)
(* name, contact fields and timestamps of a vendor are left out.  The      *)
(* output of compare_vendors is kept until the next operation runs.  A     *)
(* purchase keeps its status, approval fields and timestamps; the item,    *)
(* quantity, requester, vendor and notes of the request are left out.      *)
(* Purchase timestamps are readings of a clock that never runs backwards.  *)
(***************************************************************************)
EXTENDS Integers, Sequences, FiniteSets

(***************************************************************************)
(* Bounds of the model.                                                    *)
(***************************************************************************)
MaxVendors == 2
MaxReviews == 2
MaxIds == 2
MaxPurchases == 1
MaxClock == 2

(***************************************************************************)
(* Rational arithmetic.                                                    *)
(***************************************************************************)
Abs(a) == IF a < 0 THEN -a ELSE a

RECURSIVE Gcd(_, _)
Gcd(a, b) == IF b = 0 THEN a ELSE Gcd(b, a % b)

R(a, b) ==
    LET g == Gcd(Abs(a), b)
    IN  [n |-> a \div g, d |-> b \div g]

RAdd(x, y) == R(x.n * y.d + y.n * x.d, x.d * y.d)
RSub(x, y) == R(x.n * y.d - y.n * x.d, x.d * y.d)
RMul(x, y) == R(x.n * y.n, x.d * y.d)
RDiv(x, y) == IF y.n > 0 THEN R(x.n * y.d, x.d * y.n) ELSE R(-(x.n * y.d), x.d * (-y.n))
RLt(x, y) == x.n * y.d < y.n * x.d
RLe(x, y) == x.n * y.d <= y.n * x.d
RMin(x, y) == IF RLt(y, x) THEN y ELSE x
Num(i) == [n |-> i, d |-> 1]

(* round(x, 1): the nearest multiple of 1/10, a tie going to the even one. *)
Round1(x) ==
    LET t == x.n * 10
        q == t \div x.d
        r == t - q * x.d
        up == \/ 2 * r > x.d
              \/ 2 * r = x.d /\ q % 2 = 1
    IN  R(IF up THEN q + 1 ELSE q, 10)

(* The literals of compare_vendors' scoring formula. *)
ClampDays == 30
Zero == Num(0)
Five == Num(5)
Ten == Num(10)
Clamp == Num(ClampDays)
PriceWeight == R(4, 10)
DeliveryWeight == R(4, 10)
ReviewWeight == R(2, 10)
NoReviewFactor == R(1, 10)

(***************************************************************************)
(* Input grids: the values the operations are called with.                 *)
(***************************************************************************)
PriceGrid == {R(19, 10), Num(2), Num(10)}
DeliveryGrid == {Num(0), Num(30), Num(45)}
RatingGrid == {Num(1)}
(* The coarser grid used where both stores evolve together. *)
StorePriceGrid == {Num(2), Num(10)}
StoreDeliveryGrid == {Num(0)}
StoreRatingGrid == {Num(1)}
Approvers == {"alice", "bob"}

NoFile == [exists |-> FALSE]
None == [none |-> TRUE]
(* Python's None in a field that otherwise holds a name. *)
NoApprover == "None"
(* The notes typed with a decision. *)
Notes == {"", "ok"}
(* Timestamps are readings of a clock that counts from 0; approval_date of *)
(* a purchase that has not been decided is None.                           *)
NoDate == -1
PurchaseIds == 1..MaxPurchases
NoReviews == "No reviews"

VendorIds == 1..MaxVendors

(* A review as the menu writes it, and one stored without a rating key. *)
Review(rating) == [rating |-> rating, comment |-> "c"]
UnratedReview == [comment |-> "c"]
(* The reviews argument of create_vendor. *)
InitialReviews == {<< >>, <<Review(R(5, 2))>>}

VARIABLES
    vendors_file,     \* data/vendors.json: NoFile or the list of vendor dicts
    purchases_file,   \* data/purchases.json: NoFile or the list of purchase dicts
    call,             \* the operation that ran last
    now,              \* the latest reading of datetime.now() by a purchase operation
    decision,         \* approve_purchase / reject_purchase: its arguments
    vendor_ids,       \* compare_vendors: its argument
    vendors,          \* compare_vendors: the resolved Vendor objects
    warnings,         \* compare_vendors: ids reported "not found", in order
    error,            \* compare_vendors: "No valid vendors to compare." printed
    table,            \* compare_vendors: the printed Table, or None
    best_vendor       \* compare_vendors: the recommended Vendor, or None

vars == <<vendors_file, purchases_file, call, now, decision, vendor_ids,
          vendors, warnings, error, table, best_vendor>>

(***************************************************************************)
(* Storage helpers.                                                        *)
(***************************************************************************)
(* json.dump(data, f): the file exists afterwards and holds data. *)
save_data(data) == [exists |-> TRUE, data |-> data]

(* The default [] when the file does not exist, else its content. *)
load_data(file) == IF ~file.exists THEN << >> ELSE file.data

(* Variant: a load that creates the missing file with the default. *)
file_after_load_creating(file) == IF ~file.exists THEN save_data(<< >>) ELSE file

(* What a load leaves on disk: the file is opened for reading only, and a  *)
(* missing file is not created.                                            *)
file_after_load(file) == file

RECURSIVE get_vendor(_, _)
get_vendor(data, vid) ==
    IF data = << >> THEN None
    ELSE IF Head(data).id = vid THEN Head(data)
    ELSE get_vendor(Tail(data), vid)

(* dict.get('rating', 0) *)
rating_of(review) == IF "rating" \in DOMAIN review THEN review.rating ELSE Zero

RECURSIVE sum_ratings(_)
sum_ratings(reviews) ==
    IF reviews = << >> THEN Zero
    ELSE RAdd(rating_of(Head(reviews)), sum_ratings(Tail(reviews)))

(***************************************************************************)
(* compare_vendors: one table row per resolved vendor.                     *)
(***************************************************************************)
avg_review(v) ==
    IF v.reviews # << >>
    THEN RDiv(sum_ratings(v.reviews), Num(Len(v.reviews)))
    ELSE Zero

price_factor(v) == RMul(RDiv(v.price_rating, Ten), PriceWeight)

(* Variant: the delivery time taken as it is, without min(.., 30). *)
delivery_factor_unclamped(v) == RMul(RDiv(v.delivery_time, Clamp), DeliveryWeight)

delivery_factor(v) ==
    RMul(RDiv(RMin(v.delivery_time, Clamp), Clamp), DeliveryWeight)

(* Variant: no reviews treated as an average of 0. *)
review_factor_from_average(v) ==
    RMul(RDiv(RSub(Five, avg_review(v)), Five), ReviewWeight)

review_factor(v) ==
    LET avg == avg_review(v)
    IN  IF RLt(Zero, avg)
        THEN RMul(RDiv(RSub(Five, avg), Five), ReviewWeight)
        ELSE NoReviewFactor

(* Variant: the weighted sum itself, without "10 -". *)
raw_score_lower_is_better(v) ==
    RMul(RAdd(RAdd(price_factor(v), delivery_factor(v)), review_factor(v)), Ten)

(* line 273: the score before rounding *)
raw_score(v) ==
    RSub(Ten,
         RMul(RAdd(RAdd(price_factor(v), delivery_factor(v)), review_factor(v)), Ten))

(* Variant: line 274 left out. *)
overall_score_unrounded(v) == raw_score(v)

overall_score(v) == Round1(raw_score(v))

(* f"{avg_review:.1f}" if vendor.reviews else "No reviews" *)
avg_review_cell(v) == IF v.reviews # << >> THEN Round1(avg_review(v)) ELSE NoReviews

table_row(v) ==
    [price_rating |-> v.price_rating,
     delivery_time |-> v.delivery_time,
     avg_review |-> avg_review_cell(v),
     overall_score |-> overall_score(v)]

(***************************************************************************)
(* compare_vendors: the key of max(vendors, key=...).                      *)
(***************************************************************************)
key_review_factor(v) ==
    IF v.reviews # << >>
    THEN RMul(RDiv(RSub(Five,
                        IF v.reviews # << >>
                        THEN RDiv(sum_ratings(v.reviews), Num(Len(v.reviews)))
                        ELSE Zero),
                   Five),
              ReviewWeight)
    ELSE NoReviewFactor

key_delivery_factor(v) ==
    RMul(RDiv(RMin(v.delivery_time, Clamp), Clamp), DeliveryWeight)

selection_key(v) ==
    RSub(Ten,
         RAdd(RAdd(RMul(RDiv(v.price_rating, Ten), PriceWeight),
                   key_delivery_factor(v)),
              key_review_factor(v)))

(* Variant: a scan that keeps the last of several items with the largest key. *)
RECURSIVE max_scan_last(_, _)
max_scan_last(best, rest) ==
    IF rest = << >> THEN best
    ELSE IF RLe(selection_key(best), selection_key(Head(rest)))
         THEN max_scan_last(Head(rest), Tail(rest))
         ELSE max_scan_last(best, Tail(rest))

(* max() keeps the first of several items with the largest key. *)
RECURSIVE max_scan(_, _)
max_scan(best, rest) ==
    IF rest = << >> THEN best
    ELSE IF RLt(selection_key(best), selection_key(Head(rest)))
         THEN max_scan(Head(rest), Tail(rest))
         ELSE max_scan(best, Tail(rest))

max_by_key_last(vs) == max_scan_last(Head(vs), Tail(vs))

max_by_key(vs) == max_scan(Head(vs), Tail(vs))

(***************************************************************************)
(* compare_vendors: resolving the ids.                                     *)
(***************************************************************************)
RECURSIVE resolve(_, _)
resolve(data, ids) ==
    IF ids = << >> THEN << >>
    ELSE IF get_vendor(data, Head(ids)) # None
         THEN <<get_vendor(data, Head(ids))>> \o resolve(data, Tail(ids))
         ELSE resolve(data, Tail(ids))

RECURSIVE not_found(_, _)
not_found(data, ids) ==
    IF ids = << >> THEN << >>
    ELSE IF get_vendor(data, Head(ids)) # None
         THEN not_found(data, Tail(ids))
         ELSE <<Head(ids)>> \o not_found(data, Tail(ids))

(* Variant: the "if not vendors" guard left out. *)
no_valid_vendors_never(vs) == FALSE

no_valid_vendors(vs) == vs = << >>

(* Variant: rows sorted by descending overall_score. *)
RECURSIVE insert_by_score(_, _)
insert_by_score(r, rows) ==
    IF rows = << >> THEN <<r>>
    ELSE IF RLt(Head(rows).overall_score, r.overall_score)
         THEN <<r>> \o rows
         ELSE <<Head(rows)>> \o insert_by_score(r, Tail(rows))

RECURSIVE table_rows_sorted(_)
table_rows_sorted(vs) ==
    IF vs = << >> THEN << >>
    ELSE insert_by_score(table_row(Head(vs)), table_rows_sorted(Tail(vs)))

table_rows(vs) == [i \in 1..Len(vs) |-> table_row(vs[i])]

(* max() of an empty list raises ValueError: nothing is recommended. *)
recommend(vs) == IF vs = << >> THEN None ELSE max_by_key(vs)

IdLists == UNION {[1..k -> VendorIds] : k \in 0..MaxIds}

compare_vendors(ids) ==
    LET data == load_data(vendors_file)
        vs == resolve(data, ids)
    IN  /\ call' = "compare_vendors"
        /\ vendor_ids' = ids
        /\ vendors' = vs
        /\ warnings' = not_found(data, ids)
        /\ IF no_valid_vendors(vs)
           THEN /\ error' = TRUE
                /\ table' = None
                /\ best_vendor' = None
           ELSE /\ error' = FALSE
                /\ table' = [title |-> "Vendor Comparison", rows |-> table_rows(vs)]
                /\ best_vendor' = recommend(vs)
        /\ vendors_file' = file_after_load(vendors_file)
        /\ UNCHANGED <<purchases_file, now>>
        /\ decision' = None

(***************************************************************************)
(* Vendor store operations.                                                *)
(***************************************************************************)
no_compare_out ==
    /\ vendor_ids' = << >>
    /\ vendors' = << >>
    /\ warnings' = << >>
    /\ error' = FALSE
    /\ table' = None
    /\ best_vendor' = None

create_vendor(price_rating, delivery_time, reviews) ==
    LET data == load_data(vendors_file)
        vendor == [id |-> Len(data) + 1,
                   price_rating |-> price_rating,
                   delivery_time |-> delivery_time,
                   reviews |-> reviews]
    IN  /\ Len(data) < MaxVendors
        /\ vendors_file' = save_data(Append(data, vendor))
        /\ call' = "create_vendor"
        /\ no_compare_out
        /\ UNCHANGED <<purchases_file, now>>
        /\ decision' = None

update_record(rec, updates) ==
    [k \in DOMAIN rec |->
        IF k \in DOMAIN updates /\ k \notin {"id", "created_at"}
        THEN updates[k] ELSE rec[k]]

update_vendor(data, vid, updates) ==
    [i \in 1..Len(data) |->
        IF /\ data[i].id = vid
           /\ \A j \in 1..(i - 1) : data[j].id # vid
        THEN update_record(data[i], updates)
        ELSE data[i]]

(* Menu 3/3: "Add Review to Vendor", rating checked to be within 1..5. *)
add_review(idx, rating) ==
    LET listed == load_data(vendors_file)
    IN  /\ listed # << >>
        /\ idx \in 1..Len(listed)
        /\ ~RLt(rating, Num(1)) /\ ~RLt(Num(5), rating)
        /\ Len(listed[idx].reviews) < MaxReviews
        /\ vendors_file' =
              save_data(update_vendor(load_data(vendors_file), listed[idx].id,
                            [reviews |-> listed[idx].reviews \o <<Review(rating)>>]))
        /\ call' = "add_review"
        /\ no_compare_out
        /\ UNCHANGED <<purchases_file, now>>
        /\ decision' = None

(* update_vendor called directly with a review list whose new review has   *)
(* no 'rating' key (the menu never writes one; the function accepts it).   *)
store_unrated_review(vid) ==
    LET data == load_data(vendors_file)
        vendor == get_vendor(data, vid)
    IN  /\ vendor # None
        /\ Len(vendor.reviews) < MaxReviews
        /\ vendors_file' =
              save_data(update_vendor(data, vid,
                            [reviews |-> vendor.reviews \o <<UnratedReview>>]))
        /\ call' = "update_vendor"
        /\ no_compare_out
        /\ UNCHANGED <<purchases_file, now>>
        /\ decision' = None

(***************************************************************************)
(* Purchase store operations.                                              *)
(***************************************************************************)
(* datetime.now(): a reading never earlier than the one before it. *)
datetime_now(t, max_clock) == {u \in {t, t + 1} : u <= max_clock}

RECURSIVE get_purchase(_, _)
get_purchase(data, pid) ==
    IF data = << >> THEN None
    ELSE IF Head(data).id = pid THEN Head(data)
    ELSE get_purchase(Tail(data), pid)

update_purchase(data, pid, updates, updated_at) ==
    [i \in 1..Len(data) |->
        IF /\ data[i].id = pid
           /\ \A j \in 1..(i - 1) : data[j].id # pid
        THEN [update_record(data[i], updates) EXCEPT !.updated_at = updated_at]
        ELSE data[i]]

create_purchase(max_clock) ==
    LET data == load_data(purchases_file)
    IN  /\ Len(data) < MaxPurchases
        /\ \E created_at \in datetime_now(now, max_clock) :
              /\ purchases_file' =
                    save_data(Append(data, [id |-> Len(data) + 1,
                                            status |-> "pending",
                                            approver |-> NoApprover,
                                            approval_date |-> NoDate,
                                            approval_notes |-> "",
                                            created_at |-> created_at,
                                            updated_at |-> created_at]))
              /\ now' = created_at
        /\ call' = "create_purchase"
        /\ decision' = None
        /\ no_compare_out
        /\ UNCHANGED vendors_file

(* Variant: the "already decided" guard left out. *)
already_decided_never(purchase) == FALSE

(* The guard of approve_purchase and reject_purchase. *)
already_decided(purchase) == purchase.status # "pending"

(* The body that approve_purchase and reject_purchase share; status is the *)
(* one value in which they differ.  Purchase.from_dict builds a Purchase   *)
(* and so reads the clock whenever the record is found.                    *)
decide_purchase(status, pid, approver, notes, max_clock) ==
    LET data == load_data(purchases_file)
        purchase == get_purchase(data, pid)
    IN  /\ decision' = [purchase_id |-> pid, approver |-> approver, notes |-> notes]
        /\ no_compare_out
        /\ UNCHANGED vendors_file
        /\ IF purchase = None
           THEN UNCHANGED <<purchases_file, now>>
           ELSE IF already_decided(purchase)
           THEN /\ UNCHANGED purchases_file
                /\ now' \in datetime_now(now, max_clock)
           ELSE \E approval_date \in datetime_now(now, max_clock) :
                \E updated_at \in datetime_now(approval_date, max_clock) :
                   /\ purchases_file' =
                         save_data(update_purchase(data, pid,
                                      [status |-> status,
                                       approver |-> approver,
                                       approval_date |-> approval_date,
                                       approval_notes |-> notes],
                                      updated_at))
                   /\ now' = updated_at

approve_purchase(pid, approver, notes, max_clock) ==
    /\ call' = "approve_purchase"
    /\ decide_purchase("approved", pid, approver, notes, max_clock)

reject_purchase(pid, approver, notes, max_clock) ==
    /\ call' = "reject_purchase"
    /\ decide_purchase("rejected", pid, approver, notes, max_clock)

(***************************************************************************)
(* The program.                                                            *)
(***************************************************************************)
Init ==
    /\ vendors_file = NoFile
    /\ purchases_file = NoFile
    /\ call = "none"
    /\ now = 0
    /\ decision = None
    /\ vendor_ids = << >>
    /\ vendors = << >>
    /\ warnings = << >>
    /\ error = FALSE
    /\ table = None
    /\ best_vendor = None

VendorOps(prices, deliveries, initial_reviews, ratings) ==
    \/ \E p \in prices, d \in deliveries, rs \in initial_reviews :
          create_vendor(p, d, rs)
    \/ \E idx \in VendorIds, r \in ratings : add_review(idx, r)
    \/ \E vid \in VendorIds : store_unrated_review(vid)
    \/ \E ids \in IdLists : compare_vendors(ids)

PurchaseOps(approvers, notes, max_clock) ==
    \/ create_purchase(max_clock)
    \/ \E pid \in PurchaseIds, a \in approvers, n \in notes :
          approve_purchase(pid, a, n, max_clock)
    \/ \E pid \in PurchaseIds, a \in approvers, n \in notes :
          reject_purchase(pid, a, n, max_clock)

(* The whole program: both stores, the clock standing still. *)
Next ==
    \/ VendorOps(StorePriceGrid, StoreDeliveryGrid, {<< >>}, StoreRatingGrid)
    \/ PurchaseOps(Approvers, {""}, 0)

Spec == Init /\ [][Next]_vars

(* The vendor store and compare_vendors, over the full input grid. *)
NextScoring == VendorOps(PriceGrid, DeliveryGrid, InitialReviews, RatingGrid)

SpecScoring == Init /\ [][NextScoring]_vars

(* The purchase store and the approval workflow, with time passing. *)
NextPurchases == PurchaseOps(Approvers, Notes, MaxClock)

SpecPurchases == Init /\ [][NextPurchases]_vars

(***************************************************************************)
(* Vocabulary of the properties.                                           *)
(***************************************************************************)
Compared == call = "compare_vendors"
Printed == Compared /\ table # None
Rows == table.rows
RowIdx == 1..Len(vendors)
REq(x, y) == x.n * y.d = y.n * x.d

Resolvable(vid) ==
    \E k \in 1..Len(load_data(vendors_file)) : load_data(vendors_file)[k].id = vid
Unresolvable(vid) == ~Resolvable(vid)
StoredVendor(vid) ==
    load_data(vendors_file)[CHOOSE k \in 1..Len(load_data(vendors_file)) :
                               load_data(vendors_file)[k].id = vid]

SamePrice(i, j) == REq(vendors[i].price_rating, vendors[j].price_rating)
SameDelivery(i, j) == REq(vendors[i].delivery_time, vendors[j].delivery_time)
SameReviews(i, j) == vendors[i].reviews = vendors[j].reviews
Reviewed(i) == vendors[i].reviews # << >>
Average(i) == RDiv(sum_ratings(vendors[i].reviews), Num(Len(vendors[i].reviews)))
Score(i) == Rows[i].overall_score
Key(i) == selection_key(vendors[i])

RowMax(i) == \A j \in RowIdx : RLe(Score(j), Score(i))
FirstRowMax == CHOOSE i \in RowIdx : RowMax(i) /\ \A j \in 1..(i - 1) : ~RowMax(j)
KeyMax(i) == \A j \in RowIdx : RLe(Key(j), Key(i))
FirstKeyMax == CHOOSE i \in RowIdx : KeyMax(i) /\ \A j \in 1..(i - 1) : ~KeyMax(j)

(* price_rating in 1..10, delivery_time >= 0, every rating present and in 1..5 *)
InDomain(v) ==
    /\ RLe(Num(1), v.price_rating) /\ RLe(v.price_rating, Ten)
    /\ RLe(Zero, v.delivery_time)
    /\ \A k \in 1..Len(v.reviews) :
          /\ "rating" \in DOMAIN v.reviews[k]
          /\ RLe(Num(1), v.reviews[k].rating) /\ RLe(v.reviews[k].rating, Five)

(* every rating in 1..5, or absent *)
RatingsInRangeOrAbsent(v) ==
    \A k \in 1..Len(v.reviews) :
        "rating" \in DOMAIN v.reviews[k] =>
            RLe(Num(1), v.reviews[k].rating) /\ RLe(v.reviews[k].rating, Five)

(***************************************************************************)
(* C1 (as stated): the recommended vendor is the first vendor, in input    *)
(* order, whose displayed 1-decimal score equals the largest displayed     *)
(* score of the table.                                                     *)
(***************************************************************************)
C1_FirstOfMaxDisplayedScore == Printed => best_vendor = vendors[FirstRowMax]

(***************************************************************************)
(* C1 (amended): the recommended vendor is the first vendor, in input      *)
(* order, whose unrounded selection key equals the largest selection key.  *)
(***************************************************************************)
C1_FirstOfMaxKey == Printed => best_vendor = vendors[FirstKeyMax]

C1_Witness ==
    /\ Printed
    /\ Len(vendors) = 2
    /\ vendors[1].id # vendors[2].id
    /\ REq(Key(1), Key(2))
    /\ best_vendor = vendors[1]

(* A tie of displayed scores that the unrounded keys break for the later vendor. *)
C1_RoundingTie ==
    /\ Printed
    /\ Len(vendors) = 2
    /\ REq(Score(1), Score(2))
    /\ RLt(Key(1), Key(2))
    /\ InDomain(vendors[1]) /\ InDomain(vendors[2])

(***************************************************************************)
(* C2: of two compared vendors with equal price_rating, equal              *)
(* delivery_time and non-empty reviews (ratings in 1..5 or absent), the    *)
(* one with the lower or equal average rating has the lower or equal       *)
(* overall score.                                                          *)
(***************************************************************************)
C2_ScoreMonotoneInAverage ==
    Printed =>
        \A i, j \in RowIdx :
            ( /\ SamePrice(i, j) /\ SameDelivery(i, j)
              /\ Reviewed(i) /\ Reviewed(j)
              /\ RatingsInRangeOrAbsent(vendors[i])
              /\ RatingsInRangeOrAbsent(vendors[j])
              /\ RLe(Average(i), Average(j)) )
            => RLe(Score(i), Score(j))

(***************************************************************************)
(* C3 (as stated): a vendor without reviews gets reviewFactor 1/10, scores *)
(* strictly lower than a vendor of the same price and delivery whose       *)
(* reviews average 2.5, and strictly higher than one whose non-empty       *)
(* reviews average 0.                                                      *)
(***************************************************************************)
ScoreWithReviewFactor(v, rf) ==
    Round1(RSub(Ten, RMul(RAdd(RAdd(price_factor(v), delivery_factor(v)), rf), Ten)))

C3_WitnessAverageZero ==
    /\ Printed
    /\ \E i, j \in RowIdx :
          /\ ~Reviewed(i) /\ Reviewed(j)
          /\ SamePrice(i, j) /\ SameDelivery(i, j)
          /\ REq(Average(j), Zero)

(***************************************************************************)
(* C4: every compared vendor whose fields are in their domains has an      *)
(* overall score within [0, 10] with at most one decimal place.            *)
(***************************************************************************)
OneDecimal(x) == (x.n * 10) % x.d = 0

C4_ScoreInRangeOneDecimal ==
    Printed =>
        \A i \in RowIdx :
            InDomain(vendors[i]) =>
                /\ RLe(Zero, Score(i)) /\ RLe(Score(i), Ten)
                /\ OneDecimal(Score(i))

(* An in-domain vendor past the delivery clamp whose score rounding changed. *)
C4_Witness ==
    /\ Printed
    /\ \E i \in RowIdx :
          /\ InDomain(vendors[i])
          /\ Reviewed(i)
          /\ RLt(Clamp, vendors[i].delivery_time)
          /\ ~REq(Score(i), raw_score(vendors[i]))

C5_WitnessDelivery ==
    /\ Printed
    /\ \E i, j \in RowIdx :
          /\ SamePrice(i, j) /\ SameReviews(i, j)
          /\ RLt(vendors[i].delivery_time, vendors[j].delivery_time)
          /\ RLt(Score(j), Score(i))

(***************************************************************************)
(* C6: a call none of whose ids resolves (an empty id list included)       *)
(* reports "No valid vendors to compare." and prints neither a table nor a *)
(* recommendation.                                                         *)
(***************************************************************************)
NoneResolves == \A k \in 1..Len(vendor_ids) : Unresolvable(vendor_ids[k])

C6_NoValidVendors ==
    (Compared /\ NoneResolves) => (error /\ table = None /\ best_vendor = None)

C6_Witness ==
    /\ Compared
    /\ vendor_ids # << >>
    /\ NoneResolves
    /\ load_data(vendors_file) # << >>
    /\ error

C6_WitnessEmptyList == Compared /\ vendor_ids = << >> /\ error

(***************************************************************************)
(* C7: the rows are the vendors of the resolvable ids, one row per         *)
(* resolvable id, in the order the ids were given; every unresolvable id   *)
(* gives a warning and no row.                                             *)
(***************************************************************************)
ResolvableIds == SelectSeq(vendor_ids, Resolvable)

C7_RowsInInputOrder ==
    Compared =>
        /\ warnings = SelectSeq(vendor_ids, Unresolvable)
        /\ Len(vendors) = Len(ResolvableIds)
        /\ \A i \in 1..Len(ResolvableIds) : vendors[i].id = ResolvableIds[i]
        /\ Printed =>
              /\ Len(Rows) = Len(ResolvableIds)
              /\ \A i \in 1..Len(ResolvableIds) :
                    Rows[i] = table_row(StoredVendor(ResolvableIds[i]))

(* Two rows given in ascending order of score, so a sort would swap them. *)
C7_Witness ==
    /\ Printed
    /\ Len(Rows) = 2
    /\ vendor_ids = <<2, 1>>
    /\ RLt(Score(1), Score(2))

C7_WitnessWarning ==
    /\ Printed
    /\ Len(vendor_ids) = 2
    /\ Len(Rows) = 1
    /\ Len(warnings) = 1

(***************************************************************************)
(* C8: two compared vendors that differ only in delivery_time, both        *)
(* delivery times >= 30, have the same overall score.                      *)
(***************************************************************************)
C8_DeliveryClamped ==
    Printed =>
        \A i, j \in RowIdx :
            ( /\ SamePrice(i, j) /\ SameReviews(i, j)
              /\ RLe(Clamp, vendors[i].delivery_time)
              /\ RLe(Clamp, vendors[j].delivery_time) )
            => REq(Score(i), Score(j))

C8_Witness ==
    /\ Printed
    /\ \E i, j \in RowIdx :
          /\ SamePrice(i, j) /\ SameReviews(i, j)
          /\ REq(vendors[i].delivery_time, Clamp)
          /\ RLt(Clamp, vendors[j].delivery_time)

(***************************************************************************)
(* C9: a compare_vendors call, succeeding or failing, leaves the stored    *)
(* vendor records and the stored purchase records as they were.            *)
(***************************************************************************)
C9_CompareLeavesStores ==
    [][call' = "compare_vendors" =>
          (vendors_file' = vendors_file /\ purchases_file' = purchases_file)]_vars

(* A successful call with both stores populated. *)
C9_Witness ==
    /\ Printed
    /\ load_data(vendors_file) # << >>
    /\ load_data(purchases_file) # << >>
    /\ \E k \in 1..Len(load_data(purchases_file)) :
          load_data(purchases_file)[k].status # "pending"

C9_WitnessFailedCall == Compared /\ error /\ ~vendors_file.exists

(***************************************************************************)
(* C10: the two copies of the scoring formula agree, so that a compared    *)
(* vendor with a strictly lower selection key never has a strictly higher  *)
(* displayed score.                                                        *)
(***************************************************************************)
C10_KeyOrderAgreesWithScore ==
    Printed =>
        \A i, j \in RowIdx : RLt(Key(i), Key(j)) => ~RLt(Score(j), Score(i))

(* C10, its premise alone: the selection key is the row score before rounding. *)
C10_KeyIsRawScore ==
    Printed => \A i \in RowIdx : REq(Key(i), raw_score(vendors[i]))

(***************************************************************************)
(* Vocabulary of the approval workflow.                                    *)
(***************************************************************************)
Decided == call \in {"approve_purchase", "reject_purchase"}
Stored(pid) == get_purchase(load_data(purchases_file), pid)

(***************************************************************************)
(* C11: a purchase decision is final.  An approve_purchase or              *)
(* reject_purchase call on a purchase that is not pending leaves its       *)
(* stored record as it was, every field of it; a call on a pending         *)
(* purchase moves its status to "approved" or "rejected" and records the   *)
(* caller as approver; no call touches a purchase other than the one it    *)
(* names.  So the status changes at most once and the approver kept is the *)
(* one of the first decision.                                              *)
(***************************************************************************)
C11_DecisionIsFinal ==
    [][Decided' =>
          \A pid \in PurchaseIds :
             /\ Stored(pid) = None => Stored(pid)' = None
             /\ (Stored(pid) # None /\ Stored(pid).status # "pending") =>
                    Stored(pid)' = Stored(pid)
             /\ (Stored(pid) # None /\ Stored(pid).status = "pending") =>
                    \/ Stored(pid)' = Stored(pid) /\ decision'.purchase_id # pid
                    \/ /\ decision'.purchase_id = pid
                       /\ Stored(pid)'.status =
                             (IF call' = "approve_purchase" THEN "approved" ELSE "rejected")
                       /\ Stored(pid)'.approver = decision'.approver
                       /\ Stored(pid)'.approval_notes = decision'.notes]_vars

(* A second decision, by another approver with other notes and at a later  *)
(* time, was attempted on a purchase already decided.                      *)
C11_Witness ==
    /\ Decided
    /\ decision # None
    /\ Stored(decision.purchase_id) # None
    /\ Stored(decision.purchase_id).status \in {"approved", "rejected"}
    /\ Stored(decision.purchase_id).approver # decision.approver
    /\ Stored(decision.purchase_id).approval_notes # decision.notes
    /\ Stored(decision.purchase_id).updated_at < now
    /\ (call = "approve_purchase") = (Stored(decision.purchase_id).status = "rejected")

(* The first decision itself: the purchase named has just left "pending". *)
C11_WitnessFirstDecision ==
    /\ Decided
    /\ decision # None
    /\ Stored(decision.purchase_id) # None
    /\ Stored(decision.purchase_id).status \in {"approved", "rejected"}
    /\ Stored(decision.purchase_id).approver = decision.approver
    /\ Stored(decision.purchase_id).updated_at = now

====
